---- MODULE Spec2Model ----
(***************************************************************************)
(* A model of tilematrix's TilePyramid (src/tilematrix/_tilepyramid.py)    *)
(* and of the Tile, sweep and point-resolution helpers it calls.           *)
(*                                                                         *)
(* Numbers.  The program computes in IEEE doubles; the model keeps every   *)
(* quotient as an exact fraction [n, d] in lowest terms (d > 0).           *)
(* round(v, ROUND) rounds to ROUND decimals, a precision finer than the    *)
(* spacing of doubles at the magnitudes used here, so it returns the       *)
(* double it was given; Round therefore keeps the value and only reduces   *)
(* the fraction.                                                           *)
(***************************************************************************)
EXTENDS Integers, Sequences, FiniteSets, TLC

VARIABLES
    tp,       \* the TilePyramid under test (immutable after construction)
    call,     \* the method being called and its arguments
    pc,       \* "idle" | "created" | "iterating" | "done" | "raised"
    res,      \* [err, val]: the error raised or the value returned
    out,      \* tiles yielded so far by a lazy sequence
    pending   \* what the running loop has still to go through

vars == <<tp, call, pc, res, out, pending>>

\* ------------------------------------------------------------------ bounds
MaxShape == 3
MaxZoom == 1
MaxBuffer == 1

\* ------------------------------------------------------------ program constants
DefaultTileSize == 256

\* ---------------------------------------------------------------- fractions
RECURSIVE GCD(_, _)
GCD(a, b) == IF b = 0 THEN a ELSE GCD(b, a % b)

Abs(a) == IF a < 0 THEN -a ELSE a

Norm(n, d) ==
    LET g == GCD(Abs(n), d)
    IN  [n |-> n \div g, d |-> d \div g]

Q(i) == [n |-> i, d |-> 1]
LCM(a, b) == (a \div GCD(a, b)) * b
QAdd(p, q) ==
    LET l == LCM(p.d, q.d)
    IN  Norm(p.n * (l \div p.d) + q.n * (l \div q.d), l)
QSub(p, q) ==
    LET l == LCM(p.d, q.d)
    IN  Norm(p.n * (l \div p.d) - q.n * (l \div q.d), l)
QMulInt(p, k) == Norm(p.n * k, p.d)
QDivInt(p, k) == Norm(p.n, p.d * k)
QLt(p, q) == p.n * q.d < q.n * p.d
QLe(p, q) == p.n * q.d <= q.n * p.d
QMin(p, q) == IF QLt(q, p) THEN q ELSE p
QMax(p, q) == IF QLt(p, q) THEN q ELSE p
\* floor and ceiling of p / q for fractions p, q with q > 0
QFloorDiv(p, q) == (p.n * q.d) \div (p.d * q.n)
QCeilDiv(p, q) == -((-(p.n * q.d)) \div (p.d * q.n))
\* whether p is a whole multiple of q (Python: p % q == 0.)
QDivides(p, q) == (p.n * q.d) % (p.d * q.n) = 0

Round(q) == Norm(q.n, q.d)

Pow2(k) == 2 ^ k

\* math.ceil(a / b) of true division, a >= 0, b > 0
CeilDivFloorPlusOne(a, b) == (a \div b) + 1
CeilDivFloor(a, b) == a \div b
CeilDiv(a, b) == (a + b - 1) \div b

\* -------------------------------------------------------------------- grids
SmallGrid(h, w, g) ==
    IF g
    THEN [left |-> -3 * w, bottom |-> -3 * h, right |-> 3 * w, top |-> 3 * h,
          height |-> h, width |-> w, is_global |-> TRUE]
    ELSE [left |-> 2, bottom |-> 1, right |-> 2 + 6 * w, top |-> 1 + 6 * h,
          height |-> h, width |-> w, is_global |-> FALSE]

\* the 161 x 315 grid of 10-unit square pixels used by test_irregular_grids
IrregularGrid ==
    [left |-> 141920, bottom |-> 89840, right |-> 948320, top |-> 502000,
     height |-> 161, width |-> 315, is_global |-> FALSE]

Grids ==
    {SmallGrid(h, w, g) : h \in 1..MaxShape, w \in 1..MaxShape, g \in BOOLEAN}
        \cup {IrregularGrid}

Metatilings == {1, 2, 4, 8, 16}

\* TilePyramid.__init__ for a grid and a permitted metatiling
TilePyramid(grid, tile_size, metatiling) ==
    [grid |-> grid,
     left |-> grid.left, bottom |-> grid.bottom,
     right |-> grid.right, top |-> grid.top,
     is_global |-> grid.is_global,
     metatiling |-> metatiling,
     tile_size |-> tile_size,
     metatile_size |-> tile_size * metatiling,
     x_size |-> Round(Q(grid.right - grid.left)),
     y_size |-> Round(Q(grid.top - grid.bottom))]

Pyramids ==
    {TilePyramid(g, DefaultTileSize, m) : g \in Grids, m \in Metatilings}

IsSmall == tp.grid # IrregularGrid

\* --------------------------------------------------------------------- zoom
IntZoom(z) == [int |-> TRUE, val |-> z]
FloatZoom(z) == [int |-> FALSE, val |-> z]
ValidZooms == {IntZoom(z) : z \in 0..MaxZoom}
Zooms == ValidZooms \cup {IntZoom(-1), FloatZoom(1)}

validate_zoom(zoom) ==
    IF ~zoom.int \/ zoom.val < 0 THEN "InvalidZoom" ELSE "ok"

Return(v) == [err |-> "none", val |-> <<v>>]
Raise(e) == [err |-> e, val |-> <<>>]

\* ------------------------------------------------- TilePyramid sizing methods
\* (bodies after validate_zoom; z is the validated integer zoom)
matrix_width(z) ==
    LET width == CeilDiv(tp.grid.width * Pow2(z), tp.metatiling)
    IN  IF width < 1 THEN 1 ELSE width

matrix_height(z) ==
    LET height == CeilDiv(tp.grid.height * Pow2(z), tp.metatiling)
    IN  IF height < 1 THEN 1 ELSE height

tile_x_size_no_metatiling(z) ==
    Round(QDivInt(tp.x_size, tp.grid.width * Pow2(z)))
tile_x_size(z) == Round(QDivInt(tp.x_size, matrix_width(z)))

tile_y_size_no_metatiling(z) ==
    Round(QDivInt(tp.y_size, tp.grid.height * Pow2(z)))
tile_y_size(z) == Round(QDivInt(tp.y_size, matrix_height(z)))

tile_width(z) ==
    LET matrix_pixel == Pow2(z) * tp.tile_size * tp.grid.width
        tile_pixel == tp.tile_size * tp.metatiling
    IN  IF tile_pixel > matrix_pixel THEN matrix_pixel ELSE tile_pixel

tile_height(z) ==
    LET matrix_pixel == Pow2(z) * tp.tile_size * tp.grid.height
        tile_pixel == tp.tile_size * tp.metatiling
    IN  IF tile_pixel > matrix_pixel THEN matrix_pixel ELSE tile_pixel

pixel_x_size(z) == Round(QDivInt(tile_x_size(z), tile_width(z)))

pixel_y_size(z) == Round(QDivInt(tile_y_size(z), tile_height(z)))

\* --------------------------------------------------------------- call frames
NoBounds == [arity |-> 4, left |-> 0, bottom |-> 0, right |-> 0, top |-> 0]
NoGeom == [kind |-> "Polygon", pts |-> {}, valid |-> TRUE]
NoCall ==
    [op |-> "none", zoom |-> IntZoom(0), x |-> 0, y |-> 0, edge |-> "rb",
     bounds |-> NoBounds, geom |-> NoGeom, row |-> 0, col |-> 0, pb |-> 0]

Ready == pc = "idle"

\* a call that runs to completion: returns a value or raises
Finish(c, r) ==
    /\ Ready
    /\ call' = c
    /\ res' = r
    /\ pc' = IF r.err = "none" THEN "done" ELSE "raised"
    /\ out' = <<>>
    /\ pending' = <<>>
    /\ UNCHANGED tp

\* the sizing methods as called: validate_zoom first, then the body
TilePyramid_matrix_width(zoom) ==
    IF validate_zoom(zoom) # "ok"
    THEN Raise("InvalidZoom")
    ELSE Return(matrix_width(zoom.val))

TilePyramid_matrix_height(zoom) ==
    IF validate_zoom(zoom) # "ok"
    THEN Raise("InvalidZoom")
    ELSE Return(matrix_height(zoom.val))

TilePyramid_tile_x_size(zoom) ==
    IF validate_zoom(zoom) # "ok"
    THEN Raise("InvalidZoom")
    ELSE Return(tile_x_size(zoom.val))

TilePyramid_tile_y_size(zoom) ==
    IF validate_zoom(zoom) # "ok"
    THEN Raise("InvalidZoom")
    ELSE Return(tile_y_size(zoom.val))

TilePyramid_tile_width(zoom) ==
    IF validate_zoom(zoom) # "ok"
    THEN Raise("InvalidZoom")
    ELSE Return(tile_width(zoom.val))

TilePyramid_tile_height(zoom) ==
    IF validate_zoom(zoom) # "ok"
    THEN Raise("InvalidZoom")
    ELSE Return(tile_height(zoom.val))

TilePyramid_pixel_x_size(zoom) ==
    IF validate_zoom(zoom) # "ok"
    THEN Raise("InvalidZoom")
    ELSE Return(pixel_x_size(zoom.val))

TilePyramid_pixel_y_size(zoom) ==
    IF validate_zoom(zoom) # "ok"
    THEN Raise("InvalidZoom")
    ELSE Return(pixel_y_size(zoom.val))

SizingCall(name, zoom) == [NoCall EXCEPT !.op = name, !.zoom = zoom]

Call_matrix_width ==
    /\ Ready
    /\ \E zoom \in Zooms :
         Finish(SizingCall("matrix_width", zoom), TilePyramid_matrix_width(zoom))

Call_matrix_height ==
    /\ Ready
    /\ \E zoom \in Zooms :
         Finish(SizingCall("matrix_height", zoom), TilePyramid_matrix_height(zoom))

Call_tile_x_size ==
    /\ Ready
    /\ \E zoom \in Zooms :
         Finish(SizingCall("tile_x_size", zoom), TilePyramid_tile_x_size(zoom))

Call_tile_y_size ==
    /\ Ready
    /\ \E zoom \in Zooms :
         Finish(SizingCall("tile_y_size", zoom), TilePyramid_tile_y_size(zoom))

Call_tile_width ==
    /\ Ready
    /\ \E zoom \in Zooms :
         Finish(SizingCall("tile_width", zoom), TilePyramid_tile_width(zoom))

Call_tile_height ==
    /\ Ready
    /\ \E zoom \in Zooms :
         Finish(SizingCall("tile_height", zoom), TilePyramid_tile_height(zoom))

Call_pixel_x_size ==
    /\ Ready
    /\ \E zoom \in Zooms :
         Finish(SizingCall("pixel_x_size", zoom), TilePyramid_pixel_x_size(zoom))

Call_pixel_y_size ==
    /\ Ready
    /\ \E zoom \in Zooms :
         Finish(SizingCall("pixel_y_size", zoom), TilePyramid_pixel_y_size(zoom))

\* ------------------------------------------------------------------- Tile
\* TilePyramid.tile: no range validation
Tile(zoom, row, col) == [zoom |-> zoom, row |-> row, col |-> col]

InRange(t) ==
    /\ 0 <= t.row /\ t.row < matrix_height(t.zoom)
    /\ 0 <= t.col /\ t.col < matrix_width(t.zoom)

\* Tile.bounds: the cell's rectangle from the pyramid's origin (top-left),
\* grown by pixelbuffer pixels and clipped to the pyramid's bounds
Tile_bounds(t, pixelbuffer) ==
    LET tx == tile_x_size(t.zoom)
        ty == tile_y_size(t.zoom)
        left == QAdd(Q(tp.left), QMulInt(tx, t.col))
        top == QSub(Q(tp.top), QMulInt(ty, t.row))
        right == QAdd(left, tx)
        bottom == QSub(top, ty)
        xoff == QMulInt(pixel_x_size(t.zoom), pixelbuffer)
        yoff == QMulInt(pixel_y_size(t.zoom), pixelbuffer)
    IN  [left |-> QMax(QSub(left, xoff), Q(tp.left)),
         bottom |-> QMax(QSub(bottom, yoff), Q(tp.bottom)),
         right |-> QMin(QAdd(right, xoff), Q(tp.right)),
         top |-> QMin(QAdd(top, yoff), Q(tp.top))]

\* Tile.bbox: the rectangle geometry of bounds(pixelbuffer)
Tile_bbox(t, pixelbuffer) == Tile_bounds(t, pixelbuffer)

\* Tile.shape: (height, width) in pixels; the buffer is left out on every
\* edge that lies on the grid boundary
Tile_shape(t, pixelbuffer) ==
    LET above == IF t.row > 0 THEN pixelbuffer ELSE 0
        below == IF t.row < matrix_height(t.zoom) - 1 THEN pixelbuffer ELSE 0
        before == IF t.col > 0 THEN pixelbuffer ELSE 0
        after == IF t.col < matrix_width(t.zoom) - 1 THEN pixelbuffer ELSE 0
    IN  [height |-> tile_height(t.zoom) + above + below,
         width |-> tile_width(t.zoom) + before + after]

NeighborOffsets ==
    << <<-1, 0>>, <<0, 1>>, <<1, 0>>, <<0, -1>>,
       <<-1, 1>>, <<1, 1>>, <<1, -1>>, <<-1, -1>> >>

SeqSet(q) == {q[i] : i \in 1..Len(q)}

\* Tile.get_neighbors: walk the eight offsets, drop what is out of range,
\* keep the rest once per id, in the order met
RECURSIVE CollectNeighbors(_, _, _)
CollectNeighbors(t, i, unique) ==
    IF i > Len(NeighborOffsets) THEN unique
    ELSE LET n == Tile(t.zoom, t.row + NeighborOffsets[i][1],
                       t.col + NeighborOffsets[i][2])
         IN  CollectNeighbors(t, i + 1,
                 IF InRange(n) /\ n # t /\ n \notin SeqSet(unique)
                 THEN Append(unique, n) ELSE unique)

Tile_get_neighbors(t) == CollectNeighbors(t, 1, <<>>)

\* ------------------------------------------------------------ tile_from_xy
EdgeCodes == {"lb", "rb", "rt", "lt"}

\* _tile_from_xy: inverse tile-size division from the origin, then the
\* on_edge_use tie-break for a point exactly on a grid line
_tile_from_xy(x, y, z, on_edge_use) ==
    LET tx == tile_x_size(z)
        ty == tile_y_size(z)
        dx == Q(x - tp.left)
        dy == Q(tp.top - y)
        col0 == QFloorDiv(dx, tx)
        row0 == QFloorDiv(dy, ty)
        col == IF on_edge_use \in {"lb", "lt"} /\ QDivides(dx, tx)
               THEN col0 - 1 ELSE col0
        row == IF on_edge_use \in {"rt", "lt"} /\ QDivides(dy, ty)
               THEN row0 - 1 ELSE row0
    IN  Tile(z, row, col)

tile_from_xy_edge_first(x, y, zoom, on_edge_use) ==
    IF validate_zoom(zoom) # "ok" THEN Raise("InvalidZoom")
    ELSE IF on_edge_use \notin EdgeCodes THEN Raise("InvalidArgument")
    ELSE IF x < tp.left \/ x > tp.right \/ y < tp.bottom \/ y > tp.top
    THEN Raise("OutOfBounds")
    ELSE Return(_tile_from_xy(x, y, zoom.val, on_edge_use))

tile_from_xy(x, y, zoom, on_edge_use) ==
    IF validate_zoom(zoom) # "ok" THEN Raise("InvalidZoom")
    ELSE IF x < tp.left \/ x > tp.right \/ y < tp.bottom \/ y > tp.top
    THEN Raise("OutOfBounds")
    ELSE IF on_edge_use \notin EdgeCodes THEN Raise("InvalidArgument")
    ELSE Return(_tile_from_xy(x, y, zoom.val, on_edge_use))

\* ------------------------------------------------------------------ inputs
\* points inside, on each side and corner of the outer boundary, and outside
Points ==
    {<<tp.left + 3, tp.bottom + 3>>, <<tp.left + 2, tp.top - 1>>,
     <<tp.left, tp.bottom>>, <<tp.right, tp.top>>,
     <<tp.left, tp.bottom + 3>>, <<tp.left + 3, tp.top>>,
     <<tp.left - 1, tp.bottom + 3>>, <<tp.right + 1, tp.bottom + 3>>,
     <<tp.left + 3, tp.bottom - 1>>, <<tp.left + 3, tp.top + 1>>}
EdgeArgs == {"rb", "lt", "lb", "xx"}
PixelBuffers == (0..MaxBuffer) \cup {10}
Rows(z) == {0, 1, 10, matrix_height(z) - 1} \cap (0..(matrix_height(z) - 1))
Cols(z) == {0, 1, matrix_width(z) - 1} \cap (0..(matrix_width(z) - 1))

TileCall(name, t, pb) ==
    [NoCall EXCEPT !.op = name, !.zoom = IntZoom(t.zoom),
                   !.row = t.row, !.col = t.col, !.pb = pb]

CallTile == Tile(call.zoom.val, call.row, call.col)

Call_tile_from_xy ==
    /\ Ready
    /\ \E p \in Points, zoom \in Zooms, e \in EdgeArgs :
        Finish([NoCall EXCEPT !.op = "tile_from_xy", !.zoom = zoom,
                              !.x = p[1], !.y = p[2], !.edge = e],
               tile_from_xy(p[1], p[2], zoom, e))

Call_Tile_bounds ==
    /\ Ready
    /\ \E z \in 0..MaxZoom, pb \in PixelBuffers :
        \E row \in Rows(z), col \in Cols(z) :
            Finish(TileCall("bounds", Tile(z, row, col), pb),
                   Return(Tile_bounds(Tile(z, row, col), pb)))

Call_Tile_shape ==
    /\ Ready
    /\ \E z \in 0..MaxZoom, pb \in PixelBuffers :
        \E row \in Rows(z), col \in Cols(z) :
            Finish(TileCall("shape", Tile(z, row, col), pb),
                   Return(Tile_shape(Tile(z, row, col), pb)))

Call_Tile_get_neighbors ==
    /\ Ready
    /\ \E z \in 0..MaxZoom :
        \E row \in Rows(z), col \in Cols(z) :
            Finish(TileCall("get_neighbors", Tile(z, row, col), 0),
                   Return(Tile_get_neighbors(Tile(z, row, col))))

\* ------------------------------------------------ bounds-to-tile-range sweeps
Bounds(l, b, r, t) == [arity |-> 4, left |-> l, bottom |-> b, right |-> r, top |-> t]

Min(a, b) == IF a < b THEN a ELSE b
Max(a, b) == IF a > b THEN a ELSE b

\* rows r1..r2 by columns c1..c2 at zoom z, row-major
Product(z, r1, r2, c1, c2) ==
    IF r1 > r2 \/ c1 > c2 THEN <<>>
    ELSE LET ncols == c2 - c1 + 1
         IN  [i \in 1..((r2 - r1 + 1) * ncols) |->
                Tile(z, r1 + ((i - 1) \div ncols), c1 + ((i - 1) % ncols))]

\* _tiles_from_cleaned_bounds: clamp to the pyramid's bounds, map the corners
\* to row and column ranges by inverse tile-size division, enumerate
_tiles_from_cleaned_bounds(bounds, z) ==
    LET l == Max(bounds.left, tp.left)
        r == Min(bounds.right, tp.right)
        b == Max(bounds.bottom, tp.bottom)
        t == Min(bounds.top, tp.top)
        tx == tile_x_size(z)
        ty == tile_y_size(z)
    IN  IF l > r \/ b > t THEN <<>>
        ELSE Product(z,
                 QFloorDiv(Q(tp.top - t), ty),
                 QCeilDiv(Q(tp.top - b), ty) - 1,
                 QFloorDiv(Q(l - tp.left), tx),
                 QCeilDiv(Q(r - tp.left), tx) - 1)

\* a sequence with every repeated element dropped after its first place
Unique(q) ==
    LET first == {i \in 1..Len(q) : \A j \in 1..(i - 1) : q[j] # q[i]}
        nth[k \in 1..Cardinality(first)] ==
            CHOOSE i \in first : Cardinality({j \in first : j < i}) = k - 1
    IN  [k \in 1..Cardinality(first) |-> q[nth[k]]]

\* _global_tiles_from_bounds: bounds reaching over the antimeridian are cut
\* into the part west and the part east of it; tiles met twice are yielded once
_global_tiles_from_bounds(bounds, z) ==
    LET top == Min(bounds.top, tp.top)
        bottom == Max(bounds.bottom, tp.bottom)
        span == tp.right - tp.left
        west ==
            IF bounds.left < tp.left
            THEN _tiles_from_cleaned_bounds(
                     Bounds(bounds.left + span, bottom, tp.right, top), z)
                 \o _tiles_from_cleaned_bounds(
                     Bounds(tp.left, bottom, bounds.right, top), z)
            ELSE <<>>
        east ==
            IF bounds.right > tp.right
            THEN _tiles_from_cleaned_bounds(
                     Bounds(bounds.left, bottom, tp.right, top), z)
                 \o _tiles_from_cleaned_bounds(
                     Bounds(tp.left, bottom, bounds.right - span, top), z)
            ELSE <<>>
    IN  IF bounds.left >= tp.left /\ bounds.right <= tp.right
        THEN _tiles_from_cleaned_bounds(bounds, z)
        ELSE Unique(west \o east)

\* the sweep tiles_from_bounds hands over to, by is_global
tiles_from_bounds_sweep(bounds, z) ==
    IF tp.is_global
    THEN _global_tiles_from_bounds(bounds, z)
    ELSE _tiles_from_cleaned_bounds(bounds, z)

\* --------------------------------------------------------------- geometries
\* A geometry is known by its kind, validity and the points it covers.
Geom(kind, pts, valid) == [kind |-> kind, pts |-> pts, valid |-> valid]
is_empty(g) == g.pts = <<>>

LineKinds ==
    {"LineString", "MultiLineString", "Polygon", "MultiPolygon",
     "GeometryCollection"}

SetMin(S) == CHOOSE a \in S : \A b \in S : a <= b
SetMax(S) == CHOOSE a \in S : \A b \in S : a >= b

\* geometry.bounds: (minx, miny, maxx, maxy), the empty tuple when empty
geometry_bounds(g) ==
    IF is_empty(g) THEN [NoBounds EXCEPT !.arity = 0]
    ELSE LET xs == {g.pts[i][1] : i \in 1..Len(g.pts)}
             ys == {g.pts[i][2] : i \in 1..Len(g.pts)}
         IN  Bounds(SetMin(xs), SetMin(ys), SetMax(xs), SetMax(ys))

\* clip_geometry_to_srs_bounds: the part of the geometry inside the grid
clip_geometry_to_srs_bounds(g) ==
    {p \in SeqSet(g.pts) :
        /\ tp.left <= p[1] /\ p[1] <= tp.right
        /\ tp.bottom <= p[2] /\ p[2] <= tp.top}

\* prepared.intersects(rectangle)
intersects(pts, box) ==
    \E p \in pts :
        /\ QLe(box.left, Q(p[1])) /\ QLe(Q(p[1]), box.right)
        /\ QLe(box.bottom, Q(p[2])) /\ QLe(Q(p[2]), box.top)

\* whether tiles_from_geom yields a prefilter tile (lines 219-223)
geom_yields_all(g, t) == TRUE
geom_yields(g, t) == intersects(clip_geometry_to_srs_bounds(g), Tile_bbox(t, 0))

\* --------------------------------------------------------- lazy sequences
\* Calling a generator function runs none of its body.
Create(c) ==
    /\ Ready
    /\ call' = c
    /\ pc' = "created"
    /\ UNCHANGED <<tp, res, out, pending>>

Fail(e) ==
    /\ pc' = "raised"
    /\ res' = Raise(e)
    /\ UNCHANGED <<tp, call, out, pending>>

Iterate(items) ==
    /\ pc' = "iterating"
    /\ pending' = items
    /\ UNCHANGED <<tp, call, res, out>>

\* tiles_from_bounds up to its loop: validate_zoom, the tuple check, dispatch
tiles_from_bounds_start(bounds, zoom) ==
    IF validate_zoom(zoom) # "ok" THEN Raise("InvalidZoom")
    ELSE IF bounds.arity # 4 THEN Raise("InvalidArgument")
    ELSE Return(tiles_from_bounds_sweep(bounds, zoom.val))

\* everything a full iteration of tiles_from_bbox(geometry, zoom) yields
tiles_from_bbox(g, zoom) ==
    IF validate_zoom(zoom) # "ok" THEN Raise("InvalidZoom")
    ELSE tiles_from_bounds_start(geometry_bounds(g), zoom)

tiles_from_geom_start_empty_first(g, zoom) ==
    IF is_empty(g) THEN Return(<<>>)
    ELSE IF validate_zoom(zoom) # "ok" THEN Raise("InvalidZoom")
    ELSE IF ~g.valid THEN Raise("InvalidGeometry")
    ELSE IF g.kind = "Point" THEN Return(<<g.pts[1]>>)
    ELSE IF g.kind = "MultiPoint" THEN Return(g.pts)
    ELSE IF g.kind \in LineKinds THEN tiles_from_bbox(g, zoom)
    ELSE Return(<<>>)

\* tiles_from_geom up to its loops
tiles_from_geom_start(g, zoom) ==
    IF validate_zoom(zoom) # "ok" THEN Raise("InvalidZoom")
    ELSE IF is_empty(g) THEN Return(<<>>)
    ELSE IF ~g.valid THEN Raise("InvalidGeometry")
    ELSE IF g.kind = "Point" THEN Return(<<g.pts[1]>>)
    ELSE IF g.kind = "MultiPoint" THEN Return(g.pts)
    ELSE IF g.kind \in LineKinds THEN tiles_from_bbox(g, zoom)
    ELSE Return(<<>>)

\* -------------------------------------------------------- generator inputs
XSpans ==
    {<<tp.left + 1, tp.left + 4>>, <<tp.left, tp.right>>,
     <<tp.left + 3, tp.left + 3>>, <<tp.left - 2, tp.left + 1>>,
     <<tp.right - 1, tp.right + 2>>, <<tp.left - 2, tp.right + 2>>,
     <<tp.right + 1, tp.right + 3>>}
YSpans ==
    {<<tp.bottom + 1, tp.bottom + 4>>, <<tp.bottom - 1, tp.top + 1>>,
     <<tp.top + 1, tp.top + 2>>}
BoundsArgs ==
    {Bounds(xs[1], ys[1], xs[2], ys[2]) : xs \in XSpans, ys \in YSpans}
        \cup {[NoBounds EXCEPT !.arity = 3]}

GeomPoints ==
    {<<tp.left + 1, tp.top - 1>>, <<tp.right - 1, tp.bottom + 1>>,
     <<tp.right + 2, tp.top - 3>>}
PointSeqs ==
    {<<>>} \cup {<<p>> : p \in GeomPoints}
        \cup {<<pq[1], pq[2]>> :
                pq \in {ab \in GeomPoints \X GeomPoints : ab[1] # ab[2]}}
GeomArgs ==
    {Geom(k, pts, TRUE) :
        k \in {"LineString", "GeometryCollection", "MultiPoint"},
        pts \in PointSeqs}
      \cup {Geom("Point", <<p>>, TRUE) : p \in GeomPoints}
      \cup {Geom("Polygon", <<p, p>>, FALSE) : p \in GeomPoints}
LineGeomArgs == {g \in GeomArgs : g.kind \in LineKinds /\ g.valid}

Call_tiles_from_bounds ==
    /\ Ready
    /\ IsSmall
    /\ \E bounds \in BoundsArgs, zoom \in Zooms :
         Create([NoCall EXCEPT !.op = "tiles_from_bounds", !.zoom = zoom,
                               !.bounds = bounds])

\* tiles_from_bbox is no generator: its validate_zoom runs at the call
Call_tiles_from_bbox ==
    /\ Ready
    /\ IsSmall
    /\ \E g \in LineGeomArgs, zoom \in Zooms :
         /\ call' = [NoCall EXCEPT !.op = "tiles_from_bbox", !.zoom = zoom,
                                   !.geom = g, !.bounds = geometry_bounds(g)]
         /\ IF validate_zoom(zoom) # "ok"
            THEN pc' = "raised" /\ res' = Raise("InvalidZoom")
            ELSE pc' = "created" /\ res' = res
         /\ UNCHANGED <<tp, out, pending>>

Call_tiles_from_geom ==
    /\ Ready
    /\ IsSmall
    /\ \E g \in GeomArgs, zoom \in Zooms :
         Create([NoCall EXCEPT !.op = "tiles_from_geom", !.zoom = zoom,
                               !.geom = g])

\* the first next() on tiles_from_bounds (also the generator tiles_from_bbox
\* returned): the body runs up to the loop
Start_tiles_from_bounds ==
    /\ pc = "created"
    /\ call.op \in {"tiles_from_bounds", "tiles_from_bbox"}
    /\ LET r == tiles_from_bounds_start(call.bounds, call.zoom)
       IN  IF r.err # "none" THEN Fail(r.err) ELSE Iterate(r.val[1])

Start_tiles_from_geom ==
    /\ pc = "created"
    /\ call.op = "tiles_from_geom"
    /\ LET r == tiles_from_geom_start(call.geom, call.zoom)
       IN  IF r.err # "none" THEN Fail(r.err) ELSE Iterate(r.val[1])

\* for tile in <sweep>: yield tile
Yield_tile ==
    /\ pc = "iterating"
    /\ call.op \in {"tiles_from_bounds", "tiles_from_bbox"}
    /\ pending # <<>>
    /\ out' = Append(out, Head(pending))
    /\ pending' = Tail(pending)
    /\ UNCHANGED <<tp, call, pc, res>>

\* for tile in self.tiles_from_bbox(...): if intersects: yield tile
Step_geom_tile ==
    /\ pc = "iterating"
    /\ call.op = "tiles_from_geom"
    /\ call.geom.kind \in LineKinds
    /\ pending # <<>>
    /\ out' = IF geom_yields(call.geom, Head(pending))
              THEN Append(out, Head(pending)) ELSE out
    /\ pending' = Tail(pending)
    /\ UNCHANGED <<tp, call, pc, res>>

\* yield self.tile_from_xy(point.x, point.y, zoom), once per point
Step_geom_point ==
    /\ pc = "iterating"
    /\ call.op = "tiles_from_geom"
    /\ call.geom.kind \in {"Point", "MultiPoint"}
    /\ pending # <<>>
    /\ LET p == Head(pending)
           r == tile_from_xy(p[1], p[2], call.zoom, "rb")
       IN  IF r.err # "none"
           THEN Fail(r.err)
           ELSE /\ out' = Append(out, r.val[1])
                /\ pending' = Tail(pending)
                /\ UNCHANGED <<tp, call, pc, res>>

\* the loop is over: the sequence ends
Exhaust ==
    /\ pc = "iterating"
    /\ pending = <<>>
    /\ pc' = "done"
    /\ res' = Return(out)
    /\ UNCHANGED <<tp, call, out, pending>>

\* ------------------------------------------------------------ specification
Init ==
    /\ tp \in Pyramids
    /\ call = NoCall
    /\ pc = "idle"
    /\ res = Raise("none")
    /\ out = <<>>
    /\ pending = <<>>

Next ==
    \/ Call_matrix_width
    \/ Call_matrix_height
    \/ Call_tile_x_size
    \/ Call_tile_y_size
    \/ Call_tile_width
    \/ Call_tile_height
    \/ Call_pixel_x_size
    \/ Call_pixel_y_size
    \/ Call_tile_from_xy
    \/ Call_Tile_bounds
    \/ Call_Tile_shape
    \/ Call_Tile_get_neighbors
    \/ Call_tiles_from_bounds
    \/ Call_tiles_from_bbox
    \/ Call_tiles_from_geom
    \/ Start_tiles_from_bounds
    \/ Start_tiles_from_geom
    \/ Yield_tile
    \/ Step_geom_tile
    \/ Step_geom_point
    \/ Exhaust

Spec == Init /\ [][Next]_vars

\* ------------------------------------------------------------------ claims
Returned(name) == call.op = name /\ pc = "done"
Ended(name) == call.op = name /\ pc \in {"done", "raised"}
Z == call.zoom.val

\* max(1, ceil(a / m)) stated without division: the least n >= 1 with n * m >= a
IsCeilFloor(n, a, m) == n >= 1 /\ n * m >= a /\ (n = 1 \/ (n - 1) * m < a)

IrregularCase ==
    tp.grid = IrregularGrid /\ Z = 0 /\ tp.metatiling \in {1, 2, 4, 8}

\* C1: matrix_width(zoom) = max(1, ceil(shape.width * 2^zoom / metatiling)),
\* likewise matrix_height with shape.height; both are >= 1; on the 161 x 315
\* grid at zoom 0 the height is ceil(161 / metatiling) and the width
\* ceil(315 / metatiling).
C1_MatrixSize ==
    /\ Returned("matrix_width") =>
         /\ IsCeilFloor(res.val[1], tp.grid.width * 2 ^ Z, tp.metatiling)
         /\ IrregularCase =>
              res.val[1] = CASE tp.metatiling = 1 -> 315
                             [] tp.metatiling = 2 -> 158
                             [] tp.metatiling = 4 -> 79
                             [] tp.metatiling = 8 -> 40
    /\ Returned("matrix_height") =>
         /\ IsCeilFloor(res.val[1], tp.grid.height * 2 ^ Z, tp.metatiling)
         /\ IrregularCase =>
              res.val[1] = CASE tp.metatiling = 1 -> 161
                             [] tp.metatiling = 2 -> 81
                             [] tp.metatiling = 4 -> 41
                             [] tp.metatiling = 8 -> 21

C1_Witness ==
    /\ Returned("matrix_width")
    /\ tp.grid = IrregularGrid /\ tp.metatiling = 8 /\ Z = 0
    /\ res.val[1] = 40

\* C2: on every (conformal) grid pixel_x_size(z) = pixel_y_size(z), and on
\* the 161 x 315 grid of 10-unit pixels both are 10 at zoom 0 for metatiling
\* 1, 2, 4, 8.
C2_PixelSizesEqual ==
    Returned("pixel_x_size") =>
        /\ res.val[1] = pixel_y_size(Z)
        /\ IrregularCase => res.val[1] = Q(10)

\* C3: where the max(1, ...) floor is not active, tile_x_size(z + 1) is half
\* of tile_x_size(z) and tile_y_size(z + 1) half of tile_y_size(z).
C3_TileSizeHalves ==
    /\ (Returned("tile_x_size") /\ tp.grid.width * 2 ^ Z >= tp.metatiling) =>
         QMulInt(tile_x_size(Z + 1), 2) = res.val[1]
    /\ (Returned("tile_y_size") /\ tp.grid.height * 2 ^ Z >= tp.metatiling) =>
         QMulInt(tile_y_size(Z + 1), 2) = res.val[1]

GridBounds ==
    [left |-> Q(tp.left), bottom |-> Q(tp.bottom),
     right |-> Q(tp.right), top |-> Q(tp.top)]

BaseIs1x1 == tp.grid.height = 1 /\ tp.grid.width = 1

\* C4: on a grid whose base matrix is 1 x 1, for every metatiling, the
\* bounds of tile (0, 0, 0) are exactly the grid's bounds.
C4_ZeroTileCoversGrid ==
    (Returned("bounds") /\ BaseIs1x1 /\ CallTile = Tile(0, 0, 0) /\ call.pb = 0)
        => res.val[1] = GridBounds

C4_Witness ==
    /\ Returned("bounds") /\ BaseIs1x1 /\ CallTile = Tile(0, 0, 0)
    /\ call.pb = 0 /\ tp.metatiling = 16 /\ ~tp.is_global
    /\ res.val[1] = GridBounds

\* rows and columns of the matrix at zoom z, stated from the grid shape
RowInMatrix(r, z) == 0 <= r /\ r * tp.metatiling < tp.grid.height * 2 ^ z
ColInMatrix(c, z) == 0 <= c /\ c * tp.metatiling < tp.grid.width * 2 ^ z

NoRepeats(q) == \A i, j \in 1..Len(q) : q[i] = q[j] => i = j

NeighborsExact ==
    Returned("get_neighbors") =>
        LET t == CallTile
            got == res.val[1]
        IN  /\ NoRepeats(got)
            /\ SeqSet(got) =
                 {Tile(t.zoom, t.row + dr, t.col + dc) :
                    <<dr, dc>> \in
                      {o \in (-1..1) \X (-1..1) :
                         /\ o # <<0, 0>>
                         /\ RowInMatrix(t.row + o[1], t.zoom)
                         /\ ColInMatrix(t.col + o[2], t.zoom)}}

CornerTileCase ==
    Returned("get_neighbors") /\ BaseIs1x1 /\ ~tp.is_global
        /\ CallTile = Tile(1, 0, 0)

ThreeNeighbors == {Tile(1, 1, 0), Tile(1, 0, 1), Tile(1, 1, 1)}

\* C5 as stated: get_neighbors() returns exactly the in-range tiles at
\* offsets dr, dc in {-1, 0, 1} other than (0, 0), none twice; for tile
\* (1, 0, 0) of a non-global grid with a 1 x 1 base matrix that is
\* {(1,1,0), (1,0,1), (1,1,1)}.
C5_Original ==
    /\ NeighborsExact
    /\ CornerTileCase => SeqSet(res.val[1]) = ThreeNeighbors

\* C5 amended: the same, the three-tile result being that of metatiling 1
\* (with a larger metatiling the zoom-1 matrix of a 1 x 1 grid is 1 x 1 and
\* tile (1, 0, 0) has no neighbor).
C5_Neighbors ==
    /\ NeighborsExact
    /\ (CornerTileCase /\ tp.metatiling = 1) =>
         SeqSet(res.val[1]) = ThreeNeighbors
    /\ (CornerTileCase /\ tp.metatiling > 1 /\ Z = 1) => res.val[1] = <<>>

C5_Witness ==
    /\ CornerTileCase /\ tp.metatiling = 1
    /\ SeqSet(res.val[1]) = ThreeNeighbors

\* C6: for an in-range tile and pixelbuffer > 0, shape(pixelbuffer) equals
\* shape() when all four edges of the tile lie on the grid boundary and
\* differs when an edge is interior; on the 161 x 315 grid with pixelbuffer
\* 10 and metatiling 1, 2, 4, 8 it differs for tiles (0,0,0), (0,10,0) and
\* the bottom-right corner tile.
C6_BufferedShape ==
    (Returned("shape") /\ call.pb > 0) =>
        LET t == CallTile
            onBoundary == Tile_bounds(t, 0) = GridBounds
        IN  /\ onBoundary => res.val[1] = Tile_shape(t, 0)
            /\ ~onBoundary => res.val[1] # Tile_shape(t, 0)
            /\ (IrregularCase /\ call.pb = 10) =>
                 res.val[1] # Tile_shape(t, 0)
            /\ (BaseIs1x1 /\ ~tp.is_global /\ t = Tile(0, 0, 0)) =>
                 res.val[1] = Tile_shape(t, 0)

C6_Witness ==
    /\ Returned("shape") /\ IrregularCase /\ tp.metatiling = 8
    /\ call.pb = 10 /\ CallTile = Tile(0, 10, 0)
    /\ res.val[1] # Tile_shape(CallTile, 0)

PointOutside ==
    \/ call.x < tp.left \/ call.x > tp.right
    \/ call.y < tp.bottom \/ call.y > tp.top

\* C7: with a valid zoom, tile_from_xy fails with OutOfBounds exactly when
\* the point is outside the closed extent, with InvalidArgument when the
\* point is inside and on_edge_use is not lb, rb, rt or lt, and otherwise
\* returns exactly one tile; OutOfBounds wins when both apply; an error
\* returns no tile.
C7_TileFromXYErrors ==
    (Ended("tile_from_xy") /\ validate_zoom(call.zoom) = "ok") =>
        /\ res.err = "OutOfBounds" <=> PointOutside
        /\ res.err = "InvalidArgument" <=>
             (~PointOutside /\ call.edge \notin {"lb", "rb", "rt", "lt"})
        /\ res.err = "none" <=>
             (~PointOutside /\ call.edge \in {"lb", "rb", "rt", "lt"})
        /\ res.err = "none" => (pc = "done" /\ Len(res.val) = 1)
        /\ res.err # "none" => (pc = "raised" /\ res.val = <<>>)

C7_Witness ==
    /\ Ended("tile_from_xy") /\ validate_zoom(call.zoom) = "ok"
    /\ PointOutside /\ call.edge = "xx"
    /\ res.err = "OutOfBounds"

ZoomedOps ==
    {"matrix_width", "matrix_height", "tile_x_size", "tile_y_size",
     "tile_width", "tile_height", "pixel_x_size", "pixel_y_size",
     "tiles_from_bounds", "tiles_from_bbox", "tiles_from_geom", "tile_from_xy"}
LazyOps == {"tiles_from_bounds", "tiles_from_geom"}

\* C8: every sizing and query method given a negative or non-integer zoom
\* fails with InvalidZoom whatever its other arguments; nothing is returned
\* and a lazy sequence yields no tile before the error.
C8_InvalidZoomFirst ==
    (call.op \in ZoomedOps /\ validate_zoom(call.zoom) # "ok") =>
        /\ out = <<>>
        /\ res.val = <<>>
        /\ pc \in {"created", "raised"}
        /\ pc = "created" => call.op \in LazyOps
        /\ pc = "raised" => res.err = "InvalidZoom"

C8_Witness ==
    /\ call.op = "tiles_from_geom" /\ validate_zoom(call.zoom) # "ok"
    /\ is_empty(call.geom)
    /\ pc = "raised" /\ res.err = "InvalidZoom" /\ out = <<>>

\* C9: what tiles_from_bounds yields holds no id twice and only tiles with
\* 0 <= row < matrix_height(zoom) and 0 <= col < matrix_width(zoom), on the
\* clipped and on the global path, bounds over the antimeridian included.
C9_SweepRangeAndUnique ==
    (call.op = "tiles_from_bounds" /\ pc \in {"iterating", "done"}) =>
        /\ NoRepeats(out)
        /\ \A i \in 1..Len(out) :
             /\ out[i].zoom = Z
             /\ RowInMatrix(out[i].row, Z)
             /\ ColInMatrix(out[i].col, Z)

C9_Witness ==
    /\ call.op = "tiles_from_bounds" /\ pc = "done"
    /\ tp.is_global /\ call.bounds.left < tp.left
    /\ call.bounds.right < tp.right
    /\ matrix_width(Z) >= 3
    /\ \E i, j \in 1..Len(out) :
         out[i].col = 0 /\ out[j].col = matrix_width(Z) - 1

LineGeomCase ==
    /\ call.op = "tiles_from_geom" /\ pc = "done"
    /\ call.geom.kind \in LineKinds /\ call.geom.valid /\ ~is_empty(call.geom)

Prefilter == tiles_from_bbox(call.geom, call.zoom).val[1]

\* C10: for a valid, non-empty line, polygon or collection geometry,
\* tiles_from_geom yields exactly the tiles of tiles_from_bbox (the sweep over
\* the geometry's own bounds) whose bbox() intersects the geometry clipped to
\* the grid, in the prefilter's order.
C10_GeomIsFilteredPrefilter ==
    LineGeomCase =>
        LET clipped == clip_geometry_to_srs_bounds(call.geom)
            Hit(t) == intersects(clipped, Tile_bbox(t, 0))
        IN  out = SelectSeq(Prefilter, Hit)

C10_Witness ==
    /\ LineGeomCase
    /\ Len(out) >= 2
    /\ Len(out) < Len(Prefilter)

====
